---- MODULE Spec2Model ----
(***************************************************************************)
(* Model of the room/session broker in server/src/server.js.               *)
(*                                                                         *)
(* Encoding of JavaScript values: every payload field is a string, except  *)
(* timestamp which is an integer.  null, undefined and the empty string    *)
(* are the falsy values that occur; they are the strings Null, Undefined   *)
(* and EmptyStr.  An object is a record (a function on its own keys), a    *)
(* Map is the sequence of its values in insertion order (each value        *)
(* carries its key: id for users, userId for cursors).                     *)
(***************************************************************************)
EXTENDS Integers, Sequences, FiniteSets, TLC

VARIABLES
    status,           \* transport: "idle" | "connected" | "disconnected" per connection id
    sioRooms,         \* transport: the socket.io rooms each socket is in (socket.join)
    currentRoom,      \* closure variable of each connection (line 27)
    currentUsername,  \* closure variable of each connection (line 28)
    currentColor,     \* closure variable of each connection (line 29)
    rooms,            \* the registry: room id -> Room (line 22)
    timers,           \* pending setTimeout callbacks armed by disconnect (line 227)
    clock,            \* Date.now(), in ticks
    crashed,          \* an exception escaped a handler or a timer callback
    sent,             \* the events emitted by the step just taken, in emission order
    last,             \* the event the step just taken processed
    nEvents           \* number of client events processed so far

vars == <<status, sioRooms, currentRoom, currentUsername, currentColor,
          rooms, timers, clock, crashed, sent, last, nEvents>>

-----------------------------------------------------------------------------
(* Bounds *)

MaxEvents == 4

(* Program constant: the 5 * 60 * 1000 ms grace delay, in ticks of 150 s *)
Grace == 2

-----------------------------------------------------------------------------
(* Values *)

Null == "<null>"
Undefined == "<undefined>"
EmptyStr == ""

Truthy(v) == v \notin {Null, Undefined, EmptyStr}

ConnSeq == <<"A", "B">>
Conns == {ConnSeq[i] : i \in DOMAIN ConnSeq}

RoomIds == {"r1", "r2", EmptyStr}

JoinPayloads ==
    {[roomId |-> "r1", username |-> "alice", color |-> "#f00"],
     [roomId |-> "r1", username |-> "bob", color |-> "#00f"],
     [roomId |-> "r2", username |-> "bob", color |-> "#00f"],
     [roomId |-> EmptyStr, username |-> "alice", color |-> "#f00"]}

DrawPayloads ==
    {[x |-> "1", y |-> "2"],
     [x |-> "1", y |-> "2", type |-> "image", imageData |-> "px",
      userId |-> "Z", username |-> "mallory", timestamp |-> -1]}

TextPayloads ==
    {[text |-> "hi", x |-> "1", y |-> "2"],
     [text |-> "hi", type |-> "stroke", userId |-> "Z"]}

ImagePayloads ==
    {[x |-> "1", y |-> "2", width |-> "3", height |-> "4", imageData |-> "px"],
     [x |-> "1", imageData |-> "px", type |-> "stroke", userId |-> "Z"]}

CursorPayloads == {[x |-> "5", y |-> "5"], [x |-> "6"]}

SaveValues == {"data:A", "data:B", EmptyStr}

(* data.k of an object: undefined when the key is absent *)
Field(d, k) == IF k \in DOMAIN d THEN d[k] ELSE Undefined

(* { ...a, ...b } : the keys of both, b wins *)
Spread(a, b) ==
    [k \in DOMAIN a \cup DOMAIN b |-> IF k \in DOMAIN b THEN b[k] ELSE a[k]]

(* Map.set(key, v) on a Map kept as the sequence of its values *)
MapSet(m, f, v) ==
    IF \E i \in DOMAIN m : m[i][f] = v[f]
    THEN [i \in DOMAIN m |-> IF m[i][f] = v[f] THEN v ELSE m[i]]
    ELSE Append(m, v)

(* Map.delete(key) *)
MapDelete(m, f, k) == SelectSeq(m, LAMBDA e : e[f] # k)

NewRoom == [users |-> <<>>, history |-> <<>>, state |-> Null, cursors |-> <<>>]

-----------------------------------------------------------------------------
(* The transport's emit primitives; sio is the room membership to use *)

WithTo(m, c) == [k \in DOMAIN m \cup {"to"} |-> IF k = "to" THEN c ELSE m[k]]

(* socket.emit(ev, ...) *)
EmitSocket(c, m) == <<WithTo(m, c)>>

Fan(targets, m) == [i \in DOMAIN targets |-> WithTo(m, targets[i])]

(* io.to(r).emit(ev, ...) *)
EmitRoom(sio, r, m) == Fan(SelectSeq(ConnSeq, LAMBDA d : r \in sio[d]), m)

(* socket.to(r).emit(ev, ...) *)
EmitRoomExcept(sio, c, r, m) ==
    Fan(SelectSeq(ConnSeq, LAMBDA d : d # c /\ r \in sio[d]), m)

-----------------------------------------------------------------------------

Init ==
    /\ status = [c \in Conns |-> "idle"]
    /\ sioRooms = [c \in Conns |-> {}]
    /\ currentRoom = [c \in Conns |-> Null]
    /\ currentUsername = [c \in Conns |-> Null]
    /\ currentColor = [c \in Conns |-> Null]
    /\ rooms = <<>>
    /\ timers = {}
    /\ clock = 0
    /\ crashed = FALSE
    /\ sent = <<>>
    /\ last = [op |-> "init", c |-> Null]
    /\ nEvents = 0

(* io.on('connection'): the transport hands out connection ids in order *)
Connect(c) ==
    /\ ~crashed
    /\ status[c] = "idle"
    /\ \A i, j \in DOMAIN ConnSeq : (i < j /\ ConnSeq[j] = c) => status[ConnSeq[i]] # "idle"
    /\ status' = [status EXCEPT ![c] = "connected"]
    /\ sent' = <<>>
    /\ last' = [op |-> "connection", c |-> c]
    /\ UNCHANGED <<sioRooms, currentRoom, currentUsername, currentColor,
                   rooms, timers, clock, crashed, nEvents>>

(* A client event arrives on a live connection *)
Receives(c) ==
    /\ ~crashed
    /\ status[c] = "connected"
    /\ nEvents < MaxEvents
    /\ nEvents' = nEvents + 1

(* The handler returns at one of its guards, or throws *)
Dropped == UNCHANGED <<status, sioRooms, currentRoom, currentUsername, currentColor,
                       rooms, timers, clock, crashed>> /\ sent' = <<>>

Throws == UNCHANGED <<status, sioRooms, currentRoom, currentUsername, currentColor,
                      rooms, timers, clock>> /\ crashed' = TRUE /\ sent' = <<>>

(* if (!currentRoom) return;  const room = rooms.get(currentRoom);  if (!room) return; *)
Accepted(c) == Truthy(currentRoom[c]) /\ currentRoom[c] \in DOMAIN rooms

(* Array.from(room.users.values()) *)
UserList(room) == room.users

(* room.cursors.forEach((cursor, userId) => { if (userId !== socket.id) socket.emit(...) }) *)
CursorReplay(c, room) ==
    LET others == SelectSeq(room.cursors, LAMBDA e : e.userId # c)
    IN  [i \in DOMAIN others |-> WithTo([ev |-> "cursor-move", cursor |-> others[i]], c)]

(* Mutant: the snapshot is tested against null instead of for truthiness *)
StateDeliveryNotNull(c, room) ==
    IF room.state # Null
    THEN EmitSocket(c, [ev |-> "canvas-state", state |-> room.state])
    ELSE <<>>

(* if (room.state) socket.emit('canvas-state', room.state) *)
StateDelivery(c, room) ==
    IF Truthy(room.state)
    THEN EmitSocket(c, [ev |-> "canvas-state", state |-> room.state])
    ELSE <<>>

(* socket.on('join-room', ({ roomId, username, color }) => ...) ; given = FALSE
   is an emit without an argument, whose destructuring throws *)
JoinRoom(c, given, p) ==
    /\ Receives(c)
    /\ IF ~given
       THEN /\ last' = [op |-> "join-room", c |-> c]
            /\ Throws
       ELSE LET r == p.roomId
                sio == [sioRooms EXCEPT ![c] = @ \cup {r}]
                room0 == IF r \in DOMAIN rooms THEN rooms[r] ELSE NewRoom
                room == [room0 EXCEPT !.users =
                            MapSet(@, "id", [username |-> p.username, color |-> p.color, id |-> c])]
            IN  /\ last' = [op |-> "join-room", c |-> c, join |-> p]
                /\ currentRoom' = [currentRoom EXCEPT ![c] = r]
                /\ currentUsername' = [currentUsername EXCEPT ![c] = p.username]
                /\ currentColor' = [currentColor EXCEPT ![c] = p.color]
                /\ sioRooms' = sio
                /\ rooms' = [k \in DOMAIN rooms \cup {r} |-> IF k = r THEN room ELSE rooms[k]]
                /\ sent' = StateDelivery(c, room)
                           \o EmitRoom(sio, r, [ev |-> "users-update", users |-> UserList(room)])
                           \o CursorReplay(c, room)
                /\ UNCHANGED <<status, timers, clock, crashed>>

(* The attribution every history entry ends with *)
Attribution(c) ==
    [timestamp |-> clock, userId |-> c, username |-> currentUsername[c]]

(* Mutant: the payload is spread after the attribution, so its fields win *)
DrawEntryPayloadLast(c, data) == Spread(Attribution(c), data)

(* { ...data, timestamp, userId, username } *)
DrawEntry(c, data) == Spread(data, Attribution(c))

(* { type: 'text', ...data, timestamp, userId, username } *)
TextEntry(c, data) == Spread(Spread([type |-> "text"], data), Attribution(c))

(* Mutant: the image entry is built like the text entry, by spreading data *)
ImageEntrySpread(c, data) ==
    Spread(Spread([type |-> "image"], data), Attribution(c))

(* { type: 'image', x: data.x, y: data.y, width: data.width, height: data.height, ... } *)
ImageEntry(c, data) ==
    Spread([type |-> "image", x |-> Field(data, "x"), y |-> Field(data, "y"),
            width |-> Field(data, "width"), height |-> Field(data, "height")],
           Attribution(c))

(* Mutant: the stored entry is broadcast instead of the payload *)
DrawBroadcastEntry(c, data) == DrawEntry(c, data)

(* what socket.to(currentRoom).emit('draw' | 'draw-text' | 'draw-image', data) carries *)
DrawBroadcast(c, data) == data
TextBroadcast(c, data) == data
ImageBroadcast(c, data) == data

(* Mutant: the entry is put at the front of the history (unshift) *)
UnshiftAndBroadcast(c, ev, entry, data) ==
    LET r == currentRoom[c]
    IN  /\ rooms' = [rooms EXCEPT ![r].history = <<entry>> \o @]
        /\ sent' = EmitRoomExcept(sioRooms, c, r, [ev |-> ev, payload |-> data])
        /\ UNCHANGED <<status, sioRooms, currentRoom, currentUsername, currentColor,
                       timers, clock, crashed>>

(* room.history.push(entry); socket.to(currentRoom).emit(ev, data) *)
PushAndBroadcast(c, ev, entry, data) ==
    LET r == currentRoom[c]
    IN  /\ rooms' = [rooms EXCEPT ![r].history = Append(@, entry)]
        /\ sent' = EmitRoomExcept(sioRooms, c, r, [ev |-> ev, payload |-> data])
        /\ UNCHANGED <<status, sioRooms, currentRoom, currentUsername, currentColor,
                       timers, clock, crashed>>

(* socket.on('draw', (data) => ...) *)
Draw(c, data) ==
    /\ Receives(c)
    /\ last' = [op |-> "draw", c |-> c, payload |-> data]
    /\ IF ~Accepted(c) THEN Dropped
       ELSE PushAndBroadcast(c, "draw", DrawEntry(c, data), DrawBroadcast(c, data))

(* socket.on('draw-text', (data) => ...) *)
DrawText(c, data) ==
    /\ Receives(c)
    /\ last' = [op |-> "draw-text", c |-> c, payload |-> data]
    /\ IF ~Accepted(c) THEN Dropped
       ELSE PushAndBroadcast(c, "draw-text", TextEntry(c, data), TextBroadcast(c, data))

(* socket.on('draw-image', (data) => ...) ; given = FALSE: data is undefined and
   data.x throws, after the two guards *)
DrawImage(c, given, data) ==
    /\ Receives(c)
    /\ last' = IF given THEN [op |-> "draw-image", c |-> c, payload |-> data]
                        ELSE [op |-> "draw-image", c |-> c]
    /\ IF ~Accepted(c) THEN Dropped
       ELSE IF ~given THEN Throws
       ELSE PushAndBroadcast(c, "draw-image", ImageEntry(c, data), ImageBroadcast(c, data))

(* const cursorData = { userId, username, color, x, y } *)
CursorData(c, p) ==
    [userId |-> c, username |-> currentUsername[c], color |-> currentColor[c],
     x |-> Field(p, "x"), y |-> Field(p, "y")]

(* socket.on('cursor-move', ({ x, y }) => ...) ; given = FALSE: the
   destructuring of the parameter throws, before the guards *)
CursorMove(c, given, p) ==
    /\ Receives(c)
    /\ last' = IF given THEN [op |-> "cursor-move", c |-> c, payload |-> p]
                        ELSE [op |-> "cursor-move", c |-> c]
    /\ IF ~given THEN Throws
       ELSE IF ~Accepted(c) THEN Dropped
       ELSE LET r == currentRoom[c]
            IN  /\ rooms' = [rooms EXCEPT ![r].cursors = MapSet(@, "userId", CursorData(c, p))]
                /\ sent' = EmitRoomExcept(sioRooms, c, r,
                                          [ev |-> "cursor-move", cursor |-> CursorData(c, p)])
                /\ UNCHANGED <<status, sioRooms, currentRoom, currentUsername, currentColor,
                               timers, clock, crashed>>

(* Mutant: the snapshot survives the clear *)
ClearedHistoryOnly(room) == [room EXCEPT !.history = <<>>]

(* room.history = []; room.state = null *)
Cleared(room) == [room EXCEPT !.history = <<>>, !.state = Null]

(* socket.on('clear-canvas', () => ...) *)
ClearCanvas(c) ==
    /\ Receives(c)
    /\ last' = [op |-> "clear-canvas", c |-> c]
    /\ IF ~Accepted(c) THEN Dropped
       ELSE LET r == currentRoom[c]
            IN  /\ rooms' = [rooms EXCEPT ![r] = Cleared(@)]
                /\ sent' = EmitRoom(sioRooms, r, [ev |-> "clear-canvas"])
                /\ UNCHANGED <<status, sioRooms, currentRoom, currentUsername, currentColor,
                               timers, clock, crashed>>

(* Mutant: a snapshot once saved is not overwritten *)
SavedOnce(room, dataURL) ==
    IF room.state = Null THEN [room EXCEPT !.state = dataURL] ELSE room

(* room.state = dataURL *)
Saved(room, dataURL) == [room EXCEPT !.state = dataURL]

(* socket.on('save-canvas', (dataURL) => ...) *)
SaveCanvas(c, dataURL) ==
    /\ Receives(c)
    /\ last' = [op |-> "save-canvas", c |-> c, dataURL |-> dataURL]
    /\ IF ~Accepted(c) THEN Dropped
       ELSE /\ rooms' = [rooms EXCEPT ![currentRoom[c]] = Saved(@, dataURL)]
            /\ sent' = <<>>
            /\ UNCHANGED <<status, sioRooms, currentRoom, currentUsername, currentColor,
                           timers, clock, crashed>>

(* socket.on('request-canvas-state', () => ...) *)
RequestCanvasState(c) ==
    /\ Receives(c)
    /\ last' = [op |-> "request-canvas-state", c |-> c]
    /\ IF ~Accepted(c) THEN Dropped
       ELSE /\ sent' = StateDelivery(c, rooms[currentRoom[c]])
            /\ UNCHANGED <<status, sioRooms, currentRoom, currentUsername, currentColor,
                           rooms, timers, clock, crashed>>

(* socket.on('ping', (callback) => { callback(); }) ; hasCallback = FALSE: the
   client asked for no acknowledgement, callback is undefined and the call throws *)
Ping(c, hasCallback) ==
    /\ Receives(c)
    /\ last' = [op |-> "ping", c |-> c]
    /\ IF ~hasCallback THEN Throws
       ELSE /\ sent' = EmitSocket(c, [ev |-> "ack"])
            /\ UNCHANGED <<status, sioRooms, currentRoom, currentUsername, currentColor,
                           rooms, timers, clock, crashed>>

(* Mutant: only the membership is deleted, the cursor stays *)
DepartedUsersOnly(room, c) ==
    [room EXCEPT !.users = MapDelete(@, "id", c)]

(* room.users.delete(socket.id); room.cursors.delete(socket.id) *)
Departed(room, c) ==
    [room EXCEPT !.users = MapDelete(@, "id", c), !.cursors = MapDelete(@, "userId", c)]

(* setTimeout(() => ..., 5 * 60 * 1000) when room.users.size === 0 *)
Armed(c, room) ==
    IF Len(room.users) = 0
    THEN timers \cup {[by |-> c, room |-> currentRoom[c], due |-> clock + Grace]}
    ELSE timers

(* socket.on('disconnect', () => ...) ; the transport has taken the socket out
   of all its socket.io rooms before the handler runs *)
Disconnect(c) ==
    /\ Receives(c)
    /\ last' = [op |-> "disconnect", c |-> c]
    /\ status' = [status EXCEPT ![c] = "disconnected"]
    /\ sioRooms' = [sioRooms EXCEPT ![c] = {}]
    /\ IF Truthy(currentRoom[c]) /\ currentRoom[c] \in DOMAIN rooms
       THEN LET r == currentRoom[c]
                room == Departed(rooms[r], c)
            IN  /\ rooms' = [rooms EXCEPT ![r] = room]
                /\ sent' = EmitRoomExcept(sioRooms', c, r, [ev |-> "user-left", userId |-> c])
                           \o EmitRoom(sioRooms', r, [ev |-> "users-update", users |-> UserList(room)])
                /\ timers' = Armed(c, room)
       ELSE /\ sent' = <<>>
            /\ UNCHANGED <<rooms, timers>>
    /\ UNCHANGED <<currentRoom, currentUsername, currentColor, clock, crashed>>

(* The cleanup callback: const currentRoom = rooms.get(currentRoom) reads the
   binding it declares, still uninitialised, so the callback throws a
   ReferenceError before it looks at the registry; nothing catches it *)
TimerFire(c) ==
    /\ ~crashed
    /\ \E t \in timers :
        /\ t.by = c
        /\ t.due <= clock
        /\ timers' = timers \ {t}
        /\ last' = [op |-> "timer", c |-> c, room |-> t.room]
    /\ crashed' = TRUE
    /\ sent' = <<>>
    /\ UNCHANGED <<status, sioRooms, currentRoom, currentUsername, currentColor,
                   rooms, clock, nEvents>>

(* Time passes towards the pending timers; a due timer runs before the clock
   moves on *)
Tick ==
    /\ ~crashed
    /\ timers # {}
    /\ \A t \in timers : t.due > clock
    /\ clock' = clock + 1
    /\ sent' = <<>>
    /\ last' = [op |-> "tick", c |-> Null]
    /\ UNCHANGED <<status, sioRooms, currentRoom, currentUsername, currentColor,
                   rooms, timers, crashed, nEvents>>

Next ==
    \/ \E c \in Conns : Connect(c)
    \/ \E c \in Conns, given \in BOOLEAN, p \in JoinPayloads : JoinRoom(c, given, p)
    \/ \E c \in Conns, data \in DrawPayloads : Draw(c, data)
    \/ \E c \in Conns, data \in TextPayloads : DrawText(c, data)
    \/ \E c \in Conns, given \in BOOLEAN, data \in ImagePayloads : DrawImage(c, given, data)
    \/ \E c \in Conns, given \in BOOLEAN, p \in CursorPayloads : CursorMove(c, given, p)
    \/ \E c \in Conns : ClearCanvas(c)
    \/ \E c \in Conns, dataURL \in SaveValues : SaveCanvas(c, dataURL)
    \/ \E c \in Conns : RequestCanvasState(c)
    \/ \E c \in Conns, hasCallback \in BOOLEAN : Ping(c, hasCallback)
    \/ \E c \in Conns : Disconnect(c)
    \/ \E c \in Conns : TimerFire(c)
    \/ Tick

Spec == Init /\ [][Next]_vars

-----------------------------------------------------------------------------
(* Vocabulary of the properties *)

OpEvents == {"draw", "draw-text", "draw-image", "cursor-move",
             "clear-canvas", "save-canvas", "request-canvas-state"}

(* c has sent a join-room: socket.join has put it in a socket.io room *)
HasJoined(c) == sioRooms[c] # {}

(* c is currently joined to r: connected, and its most recent join-room named r *)
JoinedTo(c, r) == status[c] = "connected" /\ HasJoined(c) /\ currentRoom[c] = r

(* the step just taken processed a join-room that carried a payload *)
IsJoin(l) == l.op = "join-room" /\ "join" \in DOMAIN l

Ids(users) == {users[i].id : i \in DOMAIN users}

(* the events named ev among the emitted events s, and those of them sent to c *)
Of(s, ev) == SelectSeq(s, LAMBDA m : m.ev = ev)

OfTo(s, c, ev) == SelectSeq(s, LAMBDA m : m.ev = ev /\ m.to = c)

MsgsTo(c, ev) == OfTo(sent, c, ev)

-----------------------------------------------------------------------------
(* C1: every users-update emitted for a room, on join and on disconnect,     *)
(* lists exactly the connections currently joined to that room: connected,   *)
(* most recent join-room naming it.                                          *)
C1_MemberListExact ==
    (IsJoin(last) \/ last.op = "disconnect") =>
        \A i \in DOMAIN sent :
            sent[i].ev = "users-update" =>
                Ids(sent[i].users) = {c \in Conns : JoinedTo(c, currentRoom[last.c])}

(* C2: when the grace timer of a room fires and the room has had no member   *)
(* since the timer was armed, the room is removed from the registry (and the *)
(* broker goes on serving the other rooms).                                  *)
C2_EmptyRoomRemoved ==
    [][(/\ last'.op = "timer"
        /\ Len(rooms[last'.room].users) = 0
        /\ \A t \in timers : t.room = last'.room => t.due <= clock)
       => (last'.room \notin DOMAIN rooms' /\ ~crashed')]_vars

(* C3: a room that is empty keeps its history and snapshot until somebody    *)
(* joins it, and when the grace timer armed at its emptying fires after a    *)
(* rejoin, the room stays in the registry of the running broker, unchanged.  *)
C3_RejoinedRoomSurvives ==
    [][/\ \A r \in DOMAIN rooms :
            Len(rooms[r].users) = 0 =>
                /\ r \in DOMAIN rooms'
                /\ rooms'[r].history = rooms[r].history
                /\ rooms'[r].state = rooms[r].state
       /\ (last'.op = "timer" /\ Len(rooms[last'.room].users) > 0) =>
                /\ last'.room \in DOMAIN rooms'
                /\ rooms'[last'.room] = rooms[last'.room]
                /\ ~crashed']_vars

(* C4: after a clear-canvas from a connection joined to room R, R's history  *)
(* is empty and its snapshot is null; and while the snapshot is null and no  *)
(* save-canvas comes from a member of R, it stays null and a join-room to R  *)
(* delivers no canvas-state.                                                 *)
C4_ClearEmpties ==
    [][/\ (last'.op = "clear-canvas" /\ HasJoined(last'.c)) =>
            /\ currentRoom[last'.c] \in DOMAIN rooms'
            /\ rooms'[currentRoom[last'.c]].history = <<>>
            /\ rooms'[currentRoom[last'.c]].state = Null
       /\ \A r \in DOMAIN rooms :
            (/\ rooms[r].state = Null
             /\ ~(last'.op = "save-canvas" /\ currentRoom[last'.c] = r)) =>
                /\ rooms'[r].state = Null
                /\ (IsJoin(last') /\ last'.join.roomId = r) =>
                        \A i \in DOMAIN sent' : sent'[i].ev # "canvas-state"]_vars

(* the clear-canvas of a member has just been processed and broadcast *)
C4_Witness ==
    /\ last.op = "clear-canvas"
    /\ Accepted(last.c)
    /\ rooms[currentRoom[last.c]].history = <<>>
    /\ rooms[currentRoom[last.c]].state = Null
    /\ \E c \in Conns : c # last.c /\ Len(MsgsTo(c, "clear-canvas")) = 1

(* What a request-canvas-state or a join-room by c delivers as canvas-state   *)
(* when the snapshot of c's room counts as present: one event, to c alone,    *)
(* carrying the stored value; otherwise none.                                 *)
SnapshotTo(s, c, value, present) ==
    IF present
    THEN /\ Len(Of(s, "canvas-state")) = 1
         /\ Of(s, "canvas-state")[1].to = c
         /\ Of(s, "canvas-state")[1].state = value
    ELSE Len(Of(s, "canvas-state")) = 0

(* An accepted save-canvas makes its value the room's snapshot, and only a    *)
(* save-canvas or a clear-canvas of a member changes the snapshot.            *)
SnapshotIsLatestSaved ==
    /\ (last'.op = "save-canvas" /\ HasJoined(last'.c) /\ Truthy(currentRoom[last'.c])) =>
            rooms'[currentRoom[last'.c]].state = last'.dataURL
    /\ \A r \in DOMAIN rooms :
            ~(last'.op \in {"save-canvas", "clear-canvas"} /\ currentRoom[last'.c] = r) =>
                rooms'[r].state = rooms[r].state

(* C5 (as stated): a request-canvas-state from a connection joined to R gets  *)
(* exactly one canvas-state, to the requester only, carrying the latest saved *)
(* value verbatim whenever R holds a snapshot (not null), whatever the value; *)
(* with no snapshot nothing is delivered to anyone.                           *)
C5_RequestAnySnapshot ==
    [][/\ SnapshotIsLatestSaved
       /\ (last'.op = "request-canvas-state" /\ HasJoined(last'.c)) =>
            /\ sent' = Of(sent', "canvas-state")
            /\ SnapshotTo(sent', last'.c, rooms[currentRoom[last'.c]].state,
                          rooms[currentRoom[last'.c]].state # Null)]_vars

(* C5 (amended): the same, the snapshot counting as present only when the     *)
(* latest saved value is truthy (a non-empty string): a falsy saved value is  *)
(* treated as no snapshot and nothing is delivered.                           *)
C5_RequestTruthySnapshot ==
    [][/\ SnapshotIsLatestSaved
       /\ (last'.op = "request-canvas-state" /\ HasJoined(last'.c)) =>
            /\ sent' = Of(sent', "canvas-state")
            /\ SnapshotTo(sent', last'.c, rooms[currentRoom[last'.c]].state,
                          Truthy(rooms[currentRoom[last'.c]].state))]_vars

(* a request was answered with the second value saved in the room *)
C5_Witness ==
    /\ last.op = "request-canvas-state"
    /\ Accepted(last.c)
    /\ nEvents = 4
    /\ sent = <<[to |-> last.c, ev |-> "canvas-state", state |-> "data:B"]>>

(* C6 (as stated): a join-room to R delivers a canvas-state if and only if R  *)
(* holds a snapshot (not null), carrying the latest saved value, and to the   *)
(* joiner only.                                                               *)
C6_JoinAnySnapshot ==
    [][/\ SnapshotIsLatestSaved
       /\ IsJoin(last') =>
            SnapshotTo(sent', last'.c,
                       IF last'.join.roomId \in DOMAIN rooms
                       THEN rooms[last'.join.roomId].state ELSE Null,
                       last'.join.roomId \in DOMAIN rooms
                           /\ rooms[last'.join.roomId].state # Null)]_vars

(* C6 (amended): a join-room to R delivers a canvas-state if and only if R    *)
(* holds a truthy (non-empty) snapshot, carrying that value, to the joiner    *)
(* only; a falsy saved value is treated as no snapshot.                       *)
C6_JoinTruthySnapshot ==
    [][/\ SnapshotIsLatestSaved
       /\ IsJoin(last') =>
            SnapshotTo(sent', last'.c,
                       IF last'.join.roomId \in DOMAIN rooms
                       THEN rooms[last'.join.roomId].state ELSE Null,
                       last'.join.roomId \in DOMAIN rooms
                           /\ Truthy(rooms[last'.join.roomId].state))]_vars

(* a second connection joined a room with a snapshot and a member, and the    *)
(* canvas-state went to the joiner while the member got only the users-update *)
C6_Witness ==
    /\ IsJoin(last)
    /\ Len(MsgsTo(last.c, "canvas-state")) = 1
    /\ \E c \in Conns : c # last.c /\ JoinedTo(c, last.join.roomId)
                        /\ Len(MsgsTo(c, "users-update")) = 1

GeometryAndAttribution ==
    {"type", "x", "y", "width", "height", "timestamp", "userId", "username"}

(* C7: the history entry a draw-image creates has no field besides type, the  *)
(* geometry x, y, width, height taken from the payload, timestamp, userId and *)
(* username, so never imageData; the draw-image delivered to the peers is the *)
(* payload as sent, imageData included.                                       *)
C7_ImageEntryGeometryOnly ==
    [][(last'.op = "draw-image" /\ "payload" \in DOMAIN last' /\ Accepted(last'.c)) =>
            LET r == currentRoom[last'.c]
                h == rooms'[r].history
                e == h[Len(h)]
                P == last'.payload
            IN  /\ Len(h) = Len(rooms[r].history) + 1
                /\ DOMAIN e \subseteq GeometryAndAttribution
                /\ "imageData" \notin DOMAIN e
                /\ \A k \in {"x", "y", "width", "height"} : e[k] = Field(P, k)
                /\ \A i \in DOMAIN sent' :
                        sent'[i].ev = "draw-image" /\ sent'[i].payload = P
                /\ \A b \in Conns \ {last'.c} :
                        JoinedTo(b, r) => Len(OfTo(sent', b, "draw-image")) = 1]_vars

(* a peer has just received a draw-image with its pixels, and the entry       *)
(* appended for it has none                                                   *)
C7_Witness ==
    /\ last.op = "draw-image"
    /\ "payload" \in DOMAIN last
    /\ Accepted(last.c)
    /\ Len(sent) = 1
    /\ sent[1].to # last.c
    /\ "imageData" \in DOMAIN sent[1].payload
    /\ LET h == rooms[currentRoom[last.c]].history
       IN  Len(h) > 0 /\ h[Len(h)].type = "image" /\ h[Len(h)].userId = last.c
                      /\ "imageData" \notin DOMAIN h[Len(h)]

(* C8 (as stated, for the room ids whose events the broker accepts): when A,  *)
(* joined to R, sends draw with payload P, every other connection joined to R *)
(* receives a draw whose payload is P extended with userId = A.               *)
C8_PeersGetPayloadWithUserId ==
    [][(last'.op = "draw" /\ HasJoined(last'.c) /\ Truthy(currentRoom[last'.c])) =>
            \A b \in Conns \ {last'.c} :
                JoinedTo(b, currentRoom[last'.c]) =>
                    \E i \in DOMAIN sent' :
                        /\ sent'[i].to = b
                        /\ sent'[i].ev = "draw"
                        /\ sent'[i].payload = Spread(last'.payload, [userId |-> last'.c])]_vars

(* C8 (amended): when A, joined to R, sends draw with payload P and R is a    *)
(* truthy room id, every other connection joined to R receives exactly one    *)
(* draw, and every draw delivered carries P as sent, with no userId added,    *)
(* and goes to a connection other than A; when R is falsy (the empty string)  *)
(* the draw is dropped and nothing is delivered.                              *)
C8_PeersGetPayloadUnmodified ==
    [][(last'.op = "draw" /\ HasJoined(last'.c)) =>
            IF Truthy(currentRoom[last'.c])
            THEN /\ \A i \in DOMAIN sent' :
                        /\ sent'[i].ev = "draw"
                        /\ sent'[i].payload = last'.payload
                        /\ sent'[i].to # last'.c
                 /\ \A b \in Conns \ {last'.c} :
                        JoinedTo(b, currentRoom[last'.c]) =>
                            Len(OfTo(sent', b, "draw")) = 1
            ELSE sent' = <<>>]_vars

(* the other member of the room has just received the sender's draw           *)
C8_Witness ==
    /\ last.op = "draw"
    /\ Accepted(last.c)
    /\ \E b \in Conns \ {last.c} :
            /\ JoinedTo(b, currentRoom[last.c])
            /\ sent = <<[to |-> b, ev |-> "draw", payload |-> last.payload]>>
    /\ "userId" \notin DOMAIN last.payload

(* C9: on join-room to R the joiner, and nobody else, receives exactly one    *)
(* cursor-move for each other connection that has a cursor in R and is still  *)
(* connected, carrying that connection's id, name and color and its latest    *)
(* position, and none for a disconnected connection or for itself.            *)
C9_CursorReplay ==
    [][IsJoin(last') =>
            LET c == last'.c
                r == last'.join.roomId
                cur == IF r \in DOMAIN rooms THEN rooms[r].cursors ELSE <<>>
                got == Of(sent', "cursor-move")
            IN  /\ \A i \in DOMAIN got : got[i].to = c
                /\ \A d \in Conns :
                    LET mine == SelectSeq(got, LAMBDA m : m.cursor.userId = d)
                        kept == SelectSeq(cur, LAMBDA e : e.userId = d)
                    IN  IF d # c /\ status[d] = "connected" /\ Len(kept) = 1
                        THEN /\ Len(mine) = 1
                             /\ mine[1].cursor =
                                    [userId |-> d, username |-> currentUsername[d],
                                     color |-> currentColor[d],
                                     x |-> kept[1].x, y |-> kept[1].y]
                        ELSE Len(mine) = 0]_vars

(* C10: an operation event from a connection that has not joined a room is    *)
(* dropped: the registry and every room are unchanged, nothing is delivered   *)
(* and the broker goes on running.                                            *)
C10_UnjoinedDropped ==
    [][(last'.op \in OpEvents /\ ~HasJoined(last'.c)) =>
            /\ rooms' = rooms
            /\ sent' = <<>>
            /\ ~crashed']_vars

(* C11: a join-room from a connection that is already joined is a no-op: its  *)
(* room id, display name and color stay as its first join set them, and the   *)
(* registry (rooms, their members, cursors, history and snapshot) is          *)
(* unchanged.                                                                 *)
C11_RejoinIsNoOp ==
    [][(IsJoin(last') /\ HasJoined(last'.c)) =>
            /\ currentRoom'[last'.c] = currentRoom[last'.c]
            /\ currentUsername'[last'.c] = currentUsername[last'.c]
            /\ currentColor'[last'.c] = currentColor[last'.c]
            /\ rooms' = rooms]_vars

(* the connections the emitted events s are delivered to *)
Recipients(s) == {s[i].to : i \in DOMAIN s}

FanOutEvents == {"draw", "draw-text", "draw-image", "cursor-move"}

(* C12: a draw, draw-text, draw-image or cursor-move accepted from connection *)
(* c joined to room R is delivered to exactly the other current members of R: *)
(* the connections currently joined to R, without c.                          *)
C12_FanOutToOtherMembers ==
    [][(/\ last'.op \in FanOutEvents
        /\ "payload" \in DOMAIN last'
        /\ Accepted(last'.c)) =>
            Recipients(sent') =
                {d \in Conns \ {last'.c} : JoinedTo(d, currentRoom[last'.c])}]_vars

(* the connection ids with a cursor in the room *)
CursorIds(room) == {room.cursors[i].userId : i \in DOMAIN room.cursors}

(* C13: once the disconnect of a connection has been processed, its id is in  *)
(* no room's members and in no room's cursors, whatever room ids it joined.   *)
C13_DisconnectedIsGone ==
    \A c \in Conns :
        status[c] = "disconnected" =>
            \A r \in DOMAIN rooms :
                /\ c \notin Ids(rooms[r].users)
                /\ c \notin CursorIds(rooms[r])

HistoryEvents == {"draw", "draw-text", "draw-image"}

(* the step just taken appended to the history of room r: an accepted draw,   *)
(* draw-text or draw-image of a connection whose room is r                    *)
Appends(l, r) ==
    /\ l.op \in HistoryEvents
    /\ "payload" \in DOMAIN l
    /\ Accepted(l.c)
    /\ currentRoom[l.c] = r

(* C14: the entry appended by an accepted draw, draw-text or draw-image has   *)
(* userId = the sender's id and username = the sender's display name at that  *)
(* moment, whatever userId, username or timestamp the payload carries; and no *)
(* step changes the userId or username of an entry that stays in a history.   *)
C14_EntryAuthoredBySender ==
    [][\A r \in DOMAIN rooms :
        LET h == rooms[r].history
            g == rooms'[r].history
        IN  /\ Appends(last', r) =>
                /\ Len(g) = Len(h) + 1
                /\ g[Len(g)].userId = last'.c
                /\ g[Len(g)].username = currentUsername[last'.c]
            /\ \A i \in DOMAIN h \cap DOMAIN g :
                /\ g[i].userId = h[i].userId
                /\ g[i].username = h[i].username]_vars

(* a connection that drew as alice and was renamed has just sent a draw whose *)
(* payload names another author: both entries carry the sender's id, the      *)
(* first still the old name, the second the new one                           *)
C14_Witness ==
    /\ last.op = "draw"
    /\ Accepted(last.c)
    /\ "userId" \in DOMAIN last.payload
    /\ "username" \in DOMAIN last.payload
    /\ LET h == rooms[currentRoom[last.c]].history
       IN  /\ Len(h) = 2
           /\ h[1].userId = last.c
           /\ h[2].userId = last.c
           /\ h[2].userId # last.payload.userId
           /\ h[2].username = currentUsername[last.c]
           /\ h[2].username # last.payload.username
           /\ h[1].username # h[2].username

(* C15: the entry appended by an accepted draw-text has type 'text', whatever *)
(* the payload carries, a type field of its own included.                     *)
C15_TextEntryTaggedText ==
    [][Appends(last', currentRoom[last'.c]) /\ last'.op = "draw-text" =>
            LET g == rooms'[currentRoom[last'.c]].history
            IN  Len(g) > 0 /\ g[Len(g)].type = "text"]_vars

(* C16: no sequence of client events and timer firings crashes the broker.    *)
C16_NeverCrashes == ~crashed

IsPrefix(h, g) == Len(h) <= Len(g) /\ \A i \in DOMAIN h : g[i] = h[i]

(* C17: except for a clear-canvas on the room, the history of a room before a *)
(* step is a prefix of its history after it; an accepted draw, draw-text or   *)
(* draw-image adds exactly one entry at the end, any other step adds none.    *)
C17_HistoryAppendOnly ==
    [][\A r \in DOMAIN rooms :
        LET h == rooms[r].history
            g == rooms'[r].history
            clears == /\ last'.op = "clear-canvas"
                      /\ Accepted(last'.c)
                      /\ currentRoom[last'.c] = r
        IN  ~clears =>
                /\ r \in DOMAIN rooms'
                /\ IsPrefix(h, g)
                /\ Len(g) = Len(h) + (IF Appends(last', r) THEN 1 ELSE 0)]_vars

(* an accepted draw-text has just been appended behind an earlier entry of    *)
(* another kind                                                               *)
C17_Witness ==
    /\ last.op = "draw-text"
    /\ Accepted(last.c)
    /\ LET h == rooms[currentRoom[last.c]].history
       IN  /\ Len(h) >= 2
           /\ h[Len(h)].text = last.payload.text
           /\ "text" \notin DOMAIN h[1]

(* C18: a grace timer armed when a room emptied is cancelled by a rejoin: if  *)
(* the room was rejoined and emptied again, the firing of the earlier timer,  *)
(* while the timer of the latest emptying is still running, leaves the room   *)
(* in the registry of the running broker; and a room leaves the registry only *)
(* on the timer of its latest emptying, with no member.                       *)
C18_GraceFromLatestEmptying ==
    [][/\ (/\ last'.op = "timer"
           /\ \E t \in timers : t.room = last'.room /\ t.due > clock) =>
                /\ last'.room \in DOMAIN rooms'
                /\ ~crashed'
       /\ \A r \in DOMAIN rooms \ DOMAIN rooms' :
                /\ last'.op = "timer"
                /\ last'.room = r
                /\ Len(rooms[r].users) = 0
                /\ \A t \in timers : t.room = r => t.due <= clock]_vars

(* C19: in every room the connections with a cursor are among its members.   *)
C19_CursorsOfMembers ==
    \A r \in DOMAIN rooms : CursorIds(rooms[r]) \subseteq Ids(rooms[r].users)

(* a connection was taken out of its room by its disconnect while another     *)
(* member's cursor stays, and a connection that moved on to another room      *)
(* still has its cursor, and its membership, in the room it came from         *)
C19_Witness ==
    \E r \in DOMAIN rooms, c \in Conns :
        /\ c \in CursorIds(rooms[r])
        /\ c \in Ids(rooms[r].users)
        /\ currentRoom[c] # r
        /\ last.op = "disconnect"
        /\ last.c # c

IsolatedEvents == {"draw", "draw-text", "draw-image", "cursor-move",
                   "clear-canvas", "users-update"}

(* the room the emissions of the step just taken originate in *)
Origin(l) == currentRoom[l.c]

(* C20: a connection receives a draw, draw-text, draw-image, cursor-move,     *)
(* clear-canvas or users-update only from the room named by its most recent   *)
(* join-room.                                                                 *)
C20_ReceiveIsolation ==
    \A i \in DOMAIN sent :
        sent[i].ev \in IsolatedEvents => currentRoom[sent[i].to] = Origin(last)

====
